---- MODULE Spec2Model ----
(***************************************************************************)
(* Model of the stateful weather tool (agent.py, get_weather_stateful) and *)
(* of the manual driver (run_my_agent_manually.py, main).                  *)
(*                                                                         *)
(* A Python str is a sequence of one-character strings, so that lower(),   *)
(* replace(" ", "") and capitalize() are computed character by character.  *)
(* A Python dict is a function whose DOMAIN is the set of keys present.    *)
(* The print() calls of the tool write to a UTF-8 stdout, the one the      *)
(* sample output of run_my_agent_manually.py was produced on: a print()    *)
(* raises UnicodeEncodeError when its text holds a lone surrogate, and     *)
(* the call then ends there, with the state as written so far.             *)
(***************************************************************************)
EXTENDS Integers, Sequences, FiniteSets

VARIABLES
  state,    \* session id -> session state dict (session.state of the store)
  state0,   \* session id -> the dict the session was created with
  last,     \* the most recent tool call: [sid, city, result, rep], or NoCall;
            \* rep: the call before it had the same session and city
  last_ok,  \* session id -> the city of its most recent successful call
  pc,       \* driver: position in main()
  qi,       \* driver: index of the query being processed (1-based)
  nev,      \* driver: events consumed so far for the current query
  fin,      \* driver: the event the current loop ended on (or how it ended)
  out       \* driver: the lines printed by main(), in order

vars == <<state, state0, last, last_ok, pc, qi, nev, fin, out>>

(* ------------------------------ bounds --------------------------------- *)

NumSessions == 2
MaxEvents == 2

Sessions == 1..NumSessions

(* --------------------------- Python strings ---------------------------- *)

\* The Kelvin sign, a character outside Latin-1, written by its code point
KelvinSign == "U+212A"

\* A lone surrogate (Python "\ud800"), written by its code point: a str may
\* hold it, UTF-8 cannot encode it
LoneSurrogate == "U+D800"

\* print(text) raises UnicodeEncodeError: some character of the text cannot
\* be encoded for stdout
print_raises(text) == \E i \in 1..Len(text) : text[i] = LoneSurrogate

\* chr.lower() for one character: ASCII upper case, U+00DC and the Kelvin
\* sign U+212A (whose lower case is the ASCII k); every other character of
\* the sampled inputs is its own lower case.
LowerChar(c) ==
  CASE c = "A" -> "a" [] c = "B" -> "b" [] c = "C" -> "c" [] c = "D" -> "d"
    [] c = "E" -> "e" [] c = "F" -> "f" [] c = "G" -> "g" [] c = "H" -> "h"
    [] c = "I" -> "i" [] c = "J" -> "j" [] c = "K" -> "k" [] c = "L" -> "l"
    [] c = "M" -> "m" [] c = "N" -> "n" [] c = "O" -> "o" [] c = "P" -> "p"
    [] c = "Q" -> "q" [] c = "R" -> "r" [] c = "S" -> "s" [] c = "T" -> "t"
    [] c = "U" -> "u" [] c = "V" -> "v" [] c = "W" -> "w" [] c = "X" -> "x"
    [] c = "Y" -> "y" [] c = "Z" -> "z" [] c = "Ü" -> "ü" [] c = KelvinSign -> "k"
    [] OTHER -> c

\* The title case of one character, as str.capitalize() applies it to the
\* first character.
TitleChar(c) ==
  CASE c = "a" -> "A" [] c = "b" -> "B" [] c = "c" -> "C" [] c = "d" -> "D"
    [] c = "e" -> "E" [] c = "f" -> "F" [] c = "g" -> "G" [] c = "h" -> "H"
    [] c = "i" -> "I" [] c = "j" -> "J" [] c = "k" -> "K" [] c = "l" -> "L"
    [] c = "m" -> "M" [] c = "n" -> "N" [] c = "o" -> "O" [] c = "p" -> "P"
    [] c = "q" -> "Q" [] c = "r" -> "R" [] c = "s" -> "S" [] c = "t" -> "T"
    [] c = "u" -> "U" [] c = "v" -> "V" [] c = "w" -> "W" [] c = "x" -> "X"
    [] c = "y" -> "Y" [] c = "z" -> "Z" [] c = "ü" -> "Ü"
    [] OTHER -> c

\* str.lower()
lower(s) == [i \in 1..Len(s) |-> LowerChar(s[i])]

\* str.replace(" ", ""): drops every U+0020 and nothing else
replace_spaces(s) == SelectSeq(s, LAMBDA c : c # " ")

\* Variant of capitalize that leaves the characters after the first as given
capitalize_first_only(s) ==
  IF s = <<>> THEN <<>>
  ELSE <<TitleChar(s[1])>> \o SubSeq(s, 2, Len(s))

\* str.capitalize(): first character title-cased, all the others lower-cased
capitalize(s) ==
  IF s = <<>> THEN <<>>
  ELSE <<TitleChar(s[1])>> \o lower(SubSeq(s, 2, Len(s)))

\* Decimal digits of a natural number
RECURSIVE Digits(_)
Digits(n) ==
  LET d == CASE n % 10 = 0 -> "0" [] n % 10 = 1 -> "1" [] n % 10 = 2 -> "2"
             [] n % 10 = 3 -> "3" [] n % 10 = 4 -> "4" [] n % 10 = 5 -> "5"
             [] n % 10 = 6 -> "6" [] n % 10 = 7 -> "7" [] n % 10 = 8 -> "8"
             [] OTHER -> "9"
  IN IF n < 10 THEN <<d>> ELSE Digits(n \div 10) \o <<d>>

\* format(num/den, ".0f") for num >= 0, den > 0: the nearest integer, a tie
\* going to the even one, in decimal digits
Format0f(num, den) ==
  LET q == num \div den
      r == num % den
      n == IF 2 * r > den \/ (2 * r = den /\ q % 2 = 1) THEN q + 1 ELSE q
  IN Digits(n)

(* ------------------------------ dicts ---------------------------------- *)

EmptyDict == [k \in {} |-> 0]

\* dict.get(key, default)
Get(d, key, default) == IF key \in DOMAIN d THEN d[key] ELSE default

\* d[key] = value
Put(d, key, value) ==
  [k \in DOMAIN d \cup {key} |-> IF k = key THEN value ELSE d[k]]

(* ------------------------- get_weather_stateful ------------------------ *)

KEY_UNIT == "user_preference_temperature_unit"
KEY_CITY == "last_city_checked_stateful"
KEY_REPORT == "last_weather_report"

newyork == <<"n", "e", "w", "y", "o", "r", "k">>
london == <<"l", "o", "n", "d", "o", "n">>
tokyo == <<"t", "o", "k", "y", "o">>

\* The table of the tool, keyed by normalized city name
mock_weather_db ==
  [k \in {newyork, london, tokyo} |->
     CASE k = newyork -> [temp_c |-> 25, condition |-> <<"s", "u", "n", "n", "y">>]
       [] k = london -> [temp_c |-> 15, condition |-> <<"c", "l", "o", "u", "d", "y">>]
       [] OTHER -> [temp_c |-> 18,
                    condition |-> <<"l", "i", "g", "h", "t", " ", "r", "a", "i", "n">>]]

\* Variant of preferred_unit with the other unit as the default
preferred_unit_default_f(st) == Get(st, KEY_UNIT, "Fahrenheit")

\* preferred_unit = tool_context.state.get(KEY_UNIT, "Celsius")
preferred_unit(st) == Get(st, KEY_UNIT, "Celsius")

\* city_normalized = city.lower().replace(" ", "")
city_normalized(city) == replace_spaces(lower(city))

\* format(temp_value, ".0f") of the branch the unit selects:
\* (temp_c * 9/5) + 32 = (9 * temp_c + 160) / 5 for Fahrenheit, else temp_c
temp_text(temp_c, unit) ==
  IF unit = "Fahrenheit" THEN Format0f(9 * temp_c + 160, 5)
  ELSE Format0f(temp_c, 1)

\* temp_unit of the branch the unit selects
temp_unit(unit) ==
  IF unit = "Fahrenheit" THEN <<"°", "F">> ELSE <<"°", "C">>

\* The f-string of the report
report_text(city, condition, value, unit) ==
  <<"T", "h", "e", " ", "w", "e", "a", "t", "h", "e", "r", " ", "i", "n", " ">>
    \o capitalize(city)
    \o <<" ", "i", "s", " ">>
    \o condition
    \o <<" ", "w", "i", "t", "h", " ", "a", " ", "t", "e", "m", "p", "e", "r",
         "a", "t", "u", "r", "e", " ", "o", "f", " ">>
    \o value \o unit \o <<".">>

\* The f-string of the error message
error_msg(city) ==
  <<"S", "o", "r", "r", "y", ",", " ", "I", " ", "d", "o", "n", "'", "t", " ",
    "h", "a", "v", "e", " ", "w", "e", "a", "t", "h", "e", "r", " ", "i", "n",
    "f", "o", "r", "m", "a", "t", "i", "o", "n", " ", "f", "o", "r", " ", "'">>
    \o city \o <<"'", ".">>

\* The dict returned on the success branch
success_result(city, st) ==
  LET data == mock_weather_db[city_normalized(city)]
      unit == preferred_unit(st)
  IN [status |-> "success",
      report |-> report_text(city, data.condition,
                             temp_text(data.temp_c, unit), temp_unit(unit))]

\* The dict returned on the else branch
error_result(city) == [status |-> "error", error_message |-> error_msg(city)]

\* Variant of success_state that stores the normalized key
success_state_normalized(city, st) == Put(st, KEY_CITY, replace_spaces(lower(city)))

\* Variant of success_state that appends to the text already stored
success_state_append(city, st) == Put(st, KEY_CITY, Get(st, KEY_CITY, <<>>) \o city)

\* Variant of success_state that also stores the unit it used
success_state_unit(city, st) ==
  Put(Put(st, KEY_CITY, city), KEY_UNIT, Get(st, KEY_UNIT, "Celsius"))

\* tool_context.state after the success branch
success_state(city, st) == Put(st, KEY_CITY, city)

\* Variant of error_state that records the city on the else branch too
error_state_write(city, st) == Put(st, KEY_CITY, city)

\* tool_context.state after the else branch: nothing is written
error_state(city, st) == st

\* if city_normalized in mock_weather_db
in_db(city) == city_normalized(city) \in DOMAIN mock_weather_db

\* The call ends in a print() that raises: no dict is returned, the
\* exception propagates to the caller, and the state is as written so far
raised(st) ==
  [result |-> [status |-> "raised", exception |-> "UnicodeEncodeError"],
   state |-> st]

\* The whole tool, statement by statement: the dict it returns, or the
\* exception it raises, and the state it leaves behind.  The five print()
\* calls format the city (lines 52, 81, 86) and the unit (lines 55, 78) with
\* str(), and the result dict (line 78) with repr(), which escapes what
\* cannot be printed; a stored unit is one value here, unprintable when it
\* is the lone surrogate.
get_weather_stateful(city, st) ==
  IF print_raises(city) THEN raised(st)                           \* line 52
  ELSE IF print_raises(<<preferred_unit(st)>>) THEN raised(st)    \* line 55
  ELSE IF in_db(city)
       THEN IF print_raises(<<preferred_unit(st)>>)               \* line 78
            THEN raised(st)
            ELSE IF print_raises(city)                            \* line 81
                 THEN raised(success_state(city, st))
                 ELSE [result |-> success_result(city, st),       \* line 83
                       state |-> success_state(city, st)]
       ELSE IF print_raises(city)                                 \* line 86
            THEN raised(error_state(city, st))
            ELSE [result |-> error_result(city),                  \* line 87
                  state |-> error_state(city, st)]

(* ------------------------------ inputs --------------------------------- *)

\* City texts the tool is called with: spellings of the three table entries
\* (plain, upper case, an inner space, a trailing space with the Kelvin
\* sign), and texts that are not in the table (an unknown city, the empty
\* string, non-ASCII text, a lone surrogate)
Cities ==
  { <<"L", "o", "n", "d", "o", "n">>,
    <<"L", "O", "N", "D", "O", "N">>,
    <<"N", "e", "w", " ", "Y", "o", "r", "k">>,
    <<"T", "O", KelvinSign, "Y", "O", " ">>,
    <<"P", "a", "r", "i", "s">>,
    <<>>,
    <<"Z", "ü", "r", "i", "c", "h">>,
    <<LoneSurrogate>> }

\* The dicts a session may be created with: empty (as main() creates it),
\* with the Fahrenheit preference, and with another value of the preference
\* beside a report saved earlier
InitialStates ==
  { EmptyDict,
    [k \in {KEY_UNIT} |-> "Fahrenheit"],
    [k \in {KEY_UNIT, KEY_REPORT} |-> IF k = KEY_UNIT THEN "fahrenheit" ELSE "old"] }

(* -------------------------- tool invocations --------------------------- *)

NoCall == [sid |-> 0, city |-> <<>>, result |-> [status |-> "none"], rep |-> FALSE]

\* No successful call yet
NoCity == [some |-> FALSE, city |-> <<>>]

\* Variant of Handle: one dict shared by every session
HandleShared(s) == state[CHOOSE t \in DOMAIN state : TRUE]

\* The state handle of session s: tool_context.state
Handle(s) == state[s]

\* The store after the call on session s left the dict post behind
Commit(s, post) == [state EXCEPT ![s] = post]

\* One invocation of the tool, with the handle of session s; r is its
\* outcome
Call(s, city) ==
  \E r \in {get_weather_stateful(city, Handle(s))} :
     /\ state' = Commit(s, r.state)
     /\ last' = [sid |-> s, city |-> city, result |-> r.result,
                 rep |-> last.sid = s /\ last.city = city]
     /\ last_ok' = [last_ok EXCEPT ![s] =
                      IF r.result.status = "success"
                      THEN [some |-> TRUE, city |-> city] ELSE @]

ToolCall ==
  /\ pc = "idle"
  /\ \E s \in DOMAIN state, city \in Cities : Call(s, city)
  /\ UNCHANGED <<state0, pc, qi, nev, fin, out>>

\* An event of the runner as the loop of main() reads it: is_final_response();
\* whether content.parts is non-empty and whether parts[0].text is a str
\* ("text") or None ("notext"); actions.escalate; error_message (<<>> stands
\* for None and for "")
Event(final, parts, text, escalate, error_message) ==
  [final |-> final, parts |-> parts, text |-> text, escalate |-> escalate,
   error_message |-> error_message]

\* No event read yet in the current loop
NoEvent == [kind |-> "none", event |-> Event(FALSE, "none", <<>>, FALSE, <<>>)]

Init ==
  /\ state \in [Sessions -> InitialStates]
  /\ state0 = state
  /\ last = NoCall
  /\ last_ok = [s \in Sessions |-> NoCity]
  /\ pc = "idle"
  /\ qi = 0
  /\ nev = 0
  /\ fin = NoEvent
  /\ out = <<>>

Next == ToolCall

Spec == Init /\ [][Next]_vars

(* ------------------------------ main() --------------------------------- *)

\* SESSION_ID = "manual_session_123": the one session the driver creates
SESSION_ID == 1

queries ==
  << <<"W", "h", "a", "t", " ", "i", "s", " ", "t", "h", "e", " ", "w",
       "e", "a", "t", "h", "e", "r", " ", "l", "i", "k", "e", " ", "i",
       "n", " ", "L", "o", "n", "d", "o", "n", "?">>,
     <<"H", "o", "w", " ", "a", "b", "o", "u", "t", " ", "P", "a", "r",
       "i", "s", "?">>,
     <<"T", "e", "l", "l", " ", "m", "e", " ", "t", "h", "e", " ", "w",
       "e", "a", "t", "h", "e", "r", " ", "i", "n", " ", "N", "e", "w",
       " ", "Y", "o", "r", "k">> >>

\* final_response_text = "Agent did not produce a final response."
DefaultText ==
  <<"A", "g", "e", "n", "t", " ", "d", "i", "d", " ", "n", "o", "t",
    " ", "p", "r", "o", "d", "u", "c", "e", " ", "a", " ", "f", "i",
    "n", "a", "l", " ", "r", "e", "s", "p", "o", "n", "s", "e", ".">>

\* One printed line
Line(kind, text) == [kind |-> kind, text |-> text]

\* The text the loop leaves in final_response_text on a final event
final_response_text(ev) ==
  IF ev.parts = "text" THEN ev.text
  ELSE IF ev.parts = "notext" THEN <<"N", "o", "n", "e">>
  ELSE IF ev.escalate
  THEN <<"A", "g", "e", "n", "t", " ", "e", "s", "c", "a", "l", "a", "t",
         "e", "d", ":", " ">>
       \o (IF ev.error_message # <<>> THEN ev.error_message
           ELSE <<"N", "o", " ", "s", "p", "e", "c", "i", "f", "i", "c", " ",
                  "m", "e", "s", "s", "a", "g", "e", ".">>)
  ELSE DefaultText

\* The city texts the runner passes to the tool in the driver's session
DriverCities ==
  { <<"L", "o", "n", "d", "o", "n">>,
    <<"P", "a", "r", "i", "s">>,
    <<"N", "e", "w", " ", "Y", "o", "r", "k">> }

\* The texts parts[0].text of a final event may hold; the loop prints
\* whatever it holds: the empty string, a greeting, and, once the tool was
\* called, what it last returned, as it is or followed by a newline (as in
\* the sample output)
ReplyText ==
  { <<>>, <<"H", "e", "l", "l", "o", "!">> }
    \cup (IF last = NoCall THEN {}
          ELSE LET msg == IF last.result.status = "success"
                          THEN last.result.report
                          ELSE last.result.error_message
               IN { msg, msg \o <<"\n">> })

\* The final events a run may end on
FinalEvents ==
  { Event(TRUE, "text", txt, FALSE, <<>>) : txt \in ReplyText } \cup
  { Event(TRUE, "notext", <<>>, FALSE, <<>>),
    Event(TRUE, "none", <<>>, TRUE, <<"q", "u", "o", "t", "a">>),
    Event(TRUE, "none", <<>>, TRUE, <<>>),
    Event(TRUE, "none", <<>>, FALSE, <<>>) }

\* main() up to the loop: create_session returned a session
CreateSession ==
  /\ pc = "start"
  /\ state' = [s \in {SESSION_ID} |-> EmptyDict]
  /\ state0' = state'
  /\ last_ok' = [s \in {SESSION_ID} |-> NoCity]
  /\ out' = out \o <<Line("start", <<>>), Line("session_created", <<>>),
                     Line("runner_created", <<>>)>>
  /\ pc' = "loop"
  /\ qi' = 1
  /\ UNCHANGED <<last, nev, fin>>

\* main() when create_session returned nothing: it prints and returns
CreateSessionFails ==
  /\ pc = "start"
  /\ out' = out \o <<Line("start", <<>>), Line("failed_create", <<>>)>>
  /\ pc' = "done"
  /\ UNCHANGED <<state, state0, last, last_ok, qi, nev, fin>>

\* Top of the loop body: print the query, reset final_response_text, call
\* runner.run_async
BeginQuery ==
  /\ pc = "loop"
  /\ qi <= Len(queries)
  /\ out' = Append(out, Line("query", queries[qi]))
  /\ nev' = 0
  /\ fin' = NoEvent
  /\ pc' = "stream"
  /\ UNCHANGED <<state, state0, last, last_ok, qi>>

\* The runner invokes the tool and yields its (non-final) event
ToolEvent ==
  /\ pc = "stream"
  /\ nev < MaxEvents
  /\ \E city \in DriverCities : Call(SESSION_ID, city)
  /\ nev' = nev + 1
  /\ UNCHANGED <<state0, pc, qi, fin, out>>

\* The runner yields an event that is not final and touches no state
PlainEvent ==
  /\ pc = "stream"
  /\ nev < MaxEvents
  /\ nev' = nev + 1
  /\ UNCHANGED <<state, state0, last, last_ok, pc, qi, fin, out>>

\* output_key = "last_weather_report": the runner may save the final text
SaveOutput(ev, save) ==
  IF save /\ ev.parts = "text"
  THEN [state EXCEPT ![SESSION_ID] = Put(@, KEY_REPORT, ev.text)]
  ELSE state

\* The runner yields a final event: the loop sets final_response_text,
\* breaks, and the response line is printed
FinalEvent ==
  /\ pc = "stream"
  /\ \E ev \in FinalEvents, save \in BOOLEAN :
       /\ state' = SaveOutput(ev, save)
       /\ fin' = [kind |-> "final", event |-> ev]
       /\ out' = Append(out, Line("response", final_response_text(ev)))
  /\ qi' = qi + 1
  /\ pc' = "loop"
  /\ UNCHANGED <<state0, last, last_ok, nev>>

\* The stream ends with no final event: the default text is printed
StreamEnds ==
  /\ pc = "stream"
  /\ fin' = [NoEvent EXCEPT !.kind = "exhausted"]
  /\ out' = Append(out, Line("response", DefaultText))
  /\ qi' = qi + 1
  /\ pc' = "loop"
  /\ UNCHANGED <<state, state0, last, last_ok, nev>>

\* Variant of RunnerRaises with no except branch: the exception ends main()
RunnerRaises_abort ==
  /\ pc = "stream"
  /\ fin' = [NoEvent EXCEPT !.kind = "raised"]
  /\ pc' = "aborted"
  /\ UNCHANGED <<state, state0, last, last_ok, qi, nev, out>>

\* The runner raises an Exception: the except branch prints the error, the
\* loop goes on
RunnerRaises ==
  /\ pc = "stream"
  /\ fin' = [NoEvent EXCEPT !.kind = "raised"]
  /\ out' = Append(out, Line("error", <<>>))
  /\ qi' = qi + 1
  /\ pc' = "loop"
  /\ UNCHANGED <<state, state0, last, last_ok, nev>>

\* The runner raises what `except Exception` does not catch (CancelledError,
\* KeyboardInterrupt, SystemExit): it leaves main(), nothing more is printed
RunnerRaisesBase ==
  /\ pc = "stream"
  /\ fin' = [NoEvent EXCEPT !.kind = "raised_base"]
  /\ pc' = "aborted"
  /\ UNCHANGED <<state, state0, last, last_ok, qi, nev, out>>

\* After the loop: get_session and the dump of the final state
DumpState ==
  /\ pc = "loop"
  /\ qi > Len(queries)
  /\ \E found \in BOOLEAN :
       out' = out \o <<Line("state_header", <<>>)>> \o
              (IF ~found THEN <<Line("no_session", <<>>)>>
               ELSE IF state[SESSION_ID] # EmptyDict
               THEN <<Line("state", state[SESSION_ID])>>
               ELSE <<Line("state_none", <<>>)>>)
  /\ pc' = "done"
  /\ UNCHANGED <<state, state0, last, last_ok, qi, nev, fin>>

DriverInit ==
  /\ state = EmptyDict
  /\ state0 = EmptyDict
  /\ last = NoCall
  /\ last_ok = EmptyDict
  /\ pc = "start"
  /\ qi = 0
  /\ nev = 0
  /\ fin = NoEvent
  /\ out = <<>>

DriverNext ==
  \/ CreateSession
  \/ CreateSessionFails
  \/ BeginQuery
  \/ ToolEvent
  \/ PlainEvent
  \/ FinalEvent
  \/ StreamEnds
  \/ RunnerRaises
  \/ RunnerRaisesBase
  \/ DumpState

DriverSpec == DriverInit /\ [][DriverNext]_vars

(* ------------------------------ claims --------------------------------- *)

\* The keys of the lookup table, as the specification lists them
TableKeys ==
  { <<"n", "e", "w", "y", "o", "r", "k">>,
    <<"l", "o", "n", "d", "o", "n">>,
    <<"t", "o", "k", "y", "o">> }

\* The key of a city text: lower-cased, spaces removed
KeyOf(city) == SelectSeq([i \in 1..Len(city) |-> LowerChar(city[i])],
                         LAMBDA c : c # " ")

Called == last # NoCall
Succeeded == Called /\ last.result.status = "success"
Failed == Called /\ last.result.status = "error"
Raised == Called /\ last.result.status = "raised"

\* The step is an invocation of the tool: the session and the city of an
\* invocation are those it records in last
CallStep == last'.sid \in DOMAIN state /\ Call(last'.sid, last'.city)

\* s ends with the sequence tail
EndsWith(s, tail) ==
  /\ Len(s) >= Len(tail)
  /\ SubSeq(s, Len(s) - Len(tail) + 1, Len(s)) = tail

\* C1: a call returns status "success" exactly when the lower-cased city
\* with its spaces removed is one of newyork, london, tokyo; every other
\* input, the empty string included, returns status "error".
C1_SuccessIffKeyInTable ==
  Called =>
    /\ last.result.status \in {"success", "error"}
    /\ (last.result.status = "success") <=> (KeyOf(last.city) \in TableKeys)

\* A call with a text whose key is not in the table that returned no
\* "error" result
C1_Witness ==
  /\ Called
  /\ KeyOf(last.city) \notin TableKeys
  /\ last.result.status # "error"

\* C2: a call with a city whose key is not in the table leaves the whole
\* session state as it was: no key added, removed or changed, and
\* last_city_checked_stateful keeps its value or stays absent.
C2_ErrorLeavesStateUnchanged ==
  [][(CallStep /\ KeyOf(last'.city) \notin TableKeys) => state' = state]_vars

\* A failed call in a session that holds the city of an earlier success
C2_Witness ==
  /\ Failed
  /\ KEY_CITY \in DOMAIN state[last.sid]
  /\ state[last.sid][KEY_CITY] # last.city

\* C3: in a session created empty, last_city_checked_stateful is absent as
\* long as no call succeeded, and otherwise is the original text of the most
\* recent successful call; failed calls in between do not alter it.
C3_LastCityIsLastSuccess ==
  \A s \in DOMAIN state :
    state0[s] = EmptyDict =>
      IF last_ok[s].some
      THEN KEY_CITY \in DOMAIN state[s] /\ state[s][KEY_CITY] = last_ok[s].city
      ELSE KEY_CITY \notin DOMAIN state[s]

\* A failed call after a success with a non-normalized text, in a session
\* created empty
C3_Witness ==
  /\ Failed
  /\ state0[last.sid] = EmptyDict
  /\ last_ok[last.sid].some
  /\ last_ok[last.sid].city = <<"N", "e", "w", " ", "Y", "o", "r", "k">>

\* The temperature and unit the report must show for a key, by whether the
\* stored preference is "Fahrenheit"
ShownTemperature(key, fahrenheit) ==
  CASE key = <<"n", "e", "w", "y", "o", "r", "k">> ->
         IF fahrenheit THEN <<"7", "7", "°", "F">> ELSE <<"2", "5", "°", "C">>
    [] key = <<"l", "o", "n", "d", "o", "n">> ->
         IF fahrenheit THEN <<"5", "9", "°", "F">> ELSE <<"1", "5", "°", "C">>
    [] OTHER ->
         IF fahrenheit THEN <<"6", "4", "°", "F">> ELSE <<"1", "8", "°", "C">>

\* The condition of a key
ShownCondition(key) ==
  CASE key = <<"n", "e", "w", "y", "o", "r", "k">> -> <<"s", "u", "n", "n", "y">>
    [] key = <<"l", "o", "n", "d", "o", "n">> -> <<"c", "l", "o", "u", "d", "y">>
    [] OTHER -> <<"l", "i", "g", "h", "t", " ", "r", "a", "i", "n">>

\* The session of the last call stores the preference "Fahrenheit"
PrefersFahrenheit ==
  /\ KEY_UNIT \in DOMAIN state[last.sid]
  /\ state[last.sid][KEY_UNIT] = "Fahrenheit"

\* C4: the report of a city in the table shows the table's condition and the
\* temperature in the unit stored under user_preference_temperature_unit:
\* 77/59/64 with the degree sign and F when it is "Fahrenheit", 25/15/18 with
\* the degree sign and C when the key is absent or holds anything else.
C4_ReportShowsPreferredUnit ==
  (Called /\ KeyOf(last.city) \in TableKeys) =>
    /\ last.result.status = "success"
    /\ EndsWith(last.result.report,
                <<" ", "i", "s", " ">> \o ShownCondition(KeyOf(last.city))
                  \o <<" ", "w", "i", "t", "h", " ", "a", " ", "t", "e", "m",
                       "p", "e", "r", "a", "t", "u", "r", "e", " ", "o", "f", " ">>
                  \o ShownTemperature(KeyOf(last.city), PrefersFahrenheit)
                  \o <<".">>)

\* A Tokyo report under the Fahrenheit preference
C4_Witness ==
  /\ Succeeded
  /\ KeyOf(last.city) = <<"t", "o", "k", "y", "o">>
  /\ PrefersFahrenheit

\* The part of a report between "The weather in " and " is "
CityPart(report, city) == SubSeq(report, 16, 15 + Len(city))

\* C5 as stated: the city in the report is the input with its first character
\* upper-cased and the other characters as supplied.
C5_AsStated ==
  Succeeded =>
    CityPart(last.result.report, last.city)
      = <<TitleChar(last.city[1])>> \o SubSeq(last.city, 2, Len(last.city))

\* C5: the city in the report is the input with its first character
\* upper-cased and every other character lower-cased.
C5_CityIsCapitalized ==
  Succeeded =>
    /\ EndsWith(SubSeq(last.result.report, 1, 15),
                <<"T", "h", "e", " ", "w", "e", "a", "t", "h", "e", "r", " ",
                  "i", "n", " ">>)
    /\ CityPart(last.result.report, last.city)
         = <<TitleChar(last.city[1])>>
             \o [i \in 1..(Len(last.city) - 1) |-> LowerChar(last.city[i + 1])]

\* A report for a text with upper-case characters after the first
C5_Witness ==
  /\ Succeeded
  /\ \E i \in 2..Len(last.city) : LowerChar(last.city[i]) # last.city[i]

\* C6: every call with a string city returns a result and raises no
\* exception, the empty string and non-ASCII text included; the result is
\* either status "success" with a report and no error_message, or status
\* "error" with no report and the error_message "Sorry, I don't have
\* weather information for '<city>'." quoting the original text.
C6_ResultShape ==
  Called =>
    \/ /\ last.result.status = "success"
       /\ DOMAIN last.result = {"status", "report"}
    \/ /\ last.result.status = "error"
       /\ DOMAIN last.result = {"status", "error_message"}
       /\ last.result.error_message
            = <<"S", "o", "r", "r", "y", ",", " ", "I", " ", "d", "o", "n", "'",
                "t", " ", "h", "a", "v", "e", " ", "w", "e", "a", "t", "h", "e",
                "r", " ", "i", "n", "f", "o", "r", "m", "a", "t", "i", "o", "n",
                " ", "f", "o", "r", " ", "'">> \o last.city \o <<"'", ".">>

\* A call that raised UnicodeEncodeError in its first print(), for a text
\* holding a lone surrogate, with the state of its session untouched
C6_Witness ==
  /\ Raised
  /\ last.result.exception = "UnicodeEncodeError"
  /\ print_raises(last.city)
  /\ state[last.sid] = state0[last.sid]

\* C7: a call that repeats the successful call right before it (same
\* session, same city) returns the same report and leaves the state as the
\* first call left it, with last_city_checked_stateful that city.
C7_RepeatIsIdempotent ==
  [][(CallStep /\ last'.sid = last.sid /\ last'.city = last.city
        /\ last.result.status = "success")
      => /\ last'.result = last.result
         /\ state' = state
         /\ state'[last.sid][KEY_CITY] = last.city]_vars

\* A successful call that repeated the call before it
C7_Witness == Succeeded /\ last.rep

\* C8: a call with the handle of one session leaves every other session's
\* state as it was, and its result and the state it leaves behind are those
\* the tool computes from that session's own state alone.
C8_SessionsAreIsolated ==
  [][CallStep =>
       LET s == last'.sid
           own == get_weather_stateful(last'.city, state[s])
       IN /\ \A t \in DOMAIN state \ {s} : state'[t] = state[t]
          /\ last'.result = own.result
          /\ state'[s] = own.state]_vars

\* A Celsius report in one session while another session, which has its
\* own last city, prefers Fahrenheit
C8_Witness ==
  /\ Succeeded
  /\ ~PrefersFahrenheit
  /\ \E t \in DOMAIN state \ {last.sid} :
       /\ KEY_UNIT \in DOMAIN state[t] /\ state[t][KEY_UNIT] = "Fahrenheit"
       /\ KEY_CITY \in DOMAIN state[t] /\ state[t][KEY_CITY] # last.city

\* Every key but last_city_checked_stateful is present with the same value
\* before and after the step, in every session
OtherKeysKept ==
  \A t \in DOMAIN state :
    \A k \in (DOMAIN state[t] \cup DOMAIN state'[t]) \ {KEY_CITY} :
      /\ k \in DOMAIN state[t]
      /\ k \in DOMAIN state'[t]
      /\ state'[t][k] = state[t][k]

\* C10: a call writes at most last_city_checked_stateful, every other key
\* keeps its value; so in a session created empty the unit preference stays
\* absent and every successful report is in degrees Celsius.
C10_OnlyLastCityWritten ==
  /\ [][CallStep => OtherKeysKept]_vars
  /\ [](\A s \in DOMAIN state :
          state0[s] = EmptyDict =>
            /\ KEY_UNIT \notin DOMAIN state[s]
            /\ (Succeeded /\ last.sid = s)
                 => EndsWith(last.result.report, <<"°", "C", ".">>))

\* A successful call in a session created empty, beside a session that
\* holds a preference, a saved report and a last city
C10_Witness ==
  /\ Succeeded
  /\ state0[last.sid] = EmptyDict
  /\ \E t \in DOMAIN state :
       {KEY_UNIT, KEY_REPORT, KEY_CITY} \subseteq DOMAIN state[t]

\* The lines main() prints before the loop
C9_Header ==
  <<Line("start", <<>>), Line("session_created", <<>>), Line("runner_created", <<>>)>>

\* The line of the k-th query and the line printed when it was processed
C9_QueryLine(k) == out[Len(C9_Header) + 2 * k - 1]
C9_AnswerLine(k) == out[Len(C9_Header) + 2 * k]

\* out is the header, then for each of the first n queries its query line
\* followed by exactly one response or error line, then, if open, the query
\* line of query n + 1, and nothing else before the dump (extra lines)
C9_Processed(n, open, extra) ==
  /\ Len(out) = Len(C9_Header) + 2 * n + (IF open THEN 1 ELSE 0) + extra
  /\ SubSeq(out, 1, Len(C9_Header)) = C9_Header
  /\ \A k \in 1..(IF open THEN n + 1 ELSE n) :
       /\ C9_QueryLine(k).kind = "query"
       /\ C9_QueryLine(k).text = queries[k]
  /\ \A k \in 1..n : C9_AnswerLine(k).kind \in {"response", "error"}

\* The order of the driver's output: queries in list order, one answer line
\* each, the dump of the state only once all are processed; main() stops
\* early only on an exception of the runner that is not an Exception
C9_Order ==
  /\ pc = "start" => out = <<>>
  /\ pc = "aborted" =>
       /\ fin.kind = "raised_base"
       /\ qi \in 1..Len(queries) /\ C9_Processed(qi - 1, TRUE, 0)
  /\ pc = "stream" => qi \in 1..Len(queries) /\ C9_Processed(qi - 1, TRUE, 0)
  /\ pc = "loop" => qi \in 1..(Len(queries) + 1) /\ C9_Processed(qi - 1, FALSE, 0)
  /\ pc = "done" =>
       \/ out = <<Line("start", <<>>), Line("failed_create", <<>>)>>
       \/ /\ C9_Processed(Len(queries), FALSE, 2)
          /\ out[Len(out) - 1].kind = "state_header"
          /\ out[Len(out)].kind \in {"state", "state_none", "no_session"}
  \* once the final event of a query is read, no further event is read
  /\ fin.kind = "final" => pc # "stream"

C9_DefaultText ==
  <<"A", "g", "e", "n", "t", " ", "d", "i", "d", " ", "n", "o", "t",
    " ", "p", "r", "o", "d", "u", "c", "e", " ", "a", " ", "f", "i",
    "n", "a", "l", " ", "r", "e", "s", "p", "o", "n", "s", "e", ".">>

\* A query has just been processed and nothing was printed after its line
C9_JustAnswered == pc = "loop" /\ qi > 1

C9_Text(ev) ==
  CASE ev.parts = "text" -> ev.text
    [] ev.parts = "notext" -> <<"N", "o", "n", "e">>
    [] ev.parts = "none" /\ ev.escalate /\ ev.error_message # <<>> ->
         <<"A", "g", "e", "n", "t", " ", "e", "s", "c", "a", "l", "a", "t",
           "e", "d", ":", " ">> \o ev.error_message
    [] ev.parts = "none" /\ ev.escalate /\ ev.error_message = <<>> ->
         <<"A", "g", "e", "n", "t", " ", "e", "s", "c", "a", "l", "a", "t",
           "e", "d", ":", " ", "N", "o", " ", "s", "p", "e", "c", "i", "f",
           "i", "c", " ", "m", "e", "s", "s", "a", "g", "e", ".">>
    [] OTHER -> C9_DefaultText

====
